---- MODULE Spec2Model ----
(***************************************************************************)
(* gif-countdown: the DateTimeCounter (days/hours/minutes/seconds with     *)
(* cascading borrow) and the GifCountdown render loop that drives it.      *)
(*                                                                         *)
(* JavaScript numbers are modelled as integers plus the one non-integer    *)
(* the code can produce here, NaN (an unparseable date).  NaN is encoded   *)
(* as a reserved integer and every arithmetic step and comparison of the   *)
(* source goes through the Js* operators below, which give NaN its         *)
(* JavaScript meaning (it propagates through arithmetic and every          *)
(* comparison with it is false).                                           *)
(***************************************************************************)
EXTENDS Integers, Sequences, FiniteSets, TLC

VARIABLES
    args,     \* the constructor arguments of the counter and the clock reading
    value,    \* DateTimeCounter: this.value = {days, hours, minutes, seconds}
    view,     \* what the last getStringValue() call returned (<<>>: none yet)
    last,     \* the last call made on the counter: its name, arguments, pre-state
    calls,    \* the number of calls made on the counter since construction
    gc,       \* the GifCountdown object: its options and what has been loaded
    result    \* the outcome of the last GifCountdown method call

counterVars == <<args, value, view, last, calls>>
gifVars == <<gc, result>>
vars == <<args, value, view, last, calls, gc, result>>

----------------------------------------------------------------------------
(* Bounds of the exploration.                                              *)

\* calls made on one counter in the general specification
MaxCalls == 2
\* secondDown(1) calls made on one counter in the countdown specification
MaxTicks == 3700
\* the largest amount, in seconds, for which a minuteDown or hourDown call is
\* also compared with the secondDown call of the same amount
MaxCompared == 7500

----------------------------------------------------------------------------
(* JavaScript number semantics.                                            *)

NaN == -999999999

IsNaN(x) == x = NaN

JsSub(a, b) == IF IsNaN(a) \/ IsNaN(b) THEN NaN ELSE a - b
JsAdd(a, b) == IF IsNaN(a) \/ IsNaN(b) THEN NaN ELSE a + b
JsMul(a, b) == IF IsNaN(a) \/ IsNaN(b) THEN NaN ELSE a * b
JsGt(a, b) == ~IsNaN(a) /\ ~IsNaN(b) /\ a > b
JsLt(a, b) == ~IsNaN(a) /\ ~IsNaN(b) /\ a < b

\* Math.floor(a / b) for a positive integer divisor b
FloorDiv(a, b) == IF IsNaN(a) THEN NaN ELSE a \div b

\* Math.round(a / 1000): nearest integer, halves towards +Infinity
RoundDiv1000(a) == IF IsNaN(a) THEN NaN ELSE (a + 500) \div 1000

\* Number.prototype.toString() of an integer or NaN
DigitChar(d) ==
    CASE d = 0 -> "0" [] d = 1 -> "1" [] d = 2 -> "2" [] d = 3 -> "3"
      [] d = 4 -> "4" [] d = 5 -> "5" [] d = 6 -> "6" [] d = 7 -> "7"
      [] d = 8 -> "8" [] d = 9 -> "9"

RECURSIVE Digits(_)
Digits(n) == IF n < 10 THEN DigitChar(n) ELSE Digits(n \div 10) \o DigitChar(n % 10)

toString(x) ==
    IF IsNaN(x) THEN "NaN"
    ELSE IF x < 0 THEN "-" \o Digits(-x)
    ELSE Digits(x)

----------------------------------------------------------------------------
(* DateTimeCounter.                                                        *)

\* new Date(s).valueOf(): the instant in milliseconds, or NaN when s does not
\* parse.  A date string is modelled by what it parses to.
\* fromDate is optional: <<>> when not given, <<s>> when given.
constructorTruncates(expDateTime, fromDate, now) ==
    LET fromDateValue == IF fromDate # <<>> THEN fromDate[1] ELSE now
        toDateValue == expDateTime
        diff == JsSub(toDateValue, fromDateValue)
        rs0 == IF IsNaN(diff) THEN NaN
               ELSE IF diff >= 0 THEN diff \div 1000 ELSE -((-diff) \div 1000)
        days == FloorDiv(rs0, 86400)
        rs1 == JsSub(rs0, JsMul(days, 86400))
        hours == FloorDiv(rs1, 3600)
        rs2 == JsSub(rs1, JsMul(hours, 3600))
        minutes == FloorDiv(rs2, 60)
        rs3 == JsSub(rs2, JsMul(minutes, 60))
    IN  [days |-> days, hours |-> hours, minutes |-> minutes, seconds |-> rs3]

constructorHourInDay(expDateTime, fromDate, now) ==
    LET fromDateValue == IF fromDate # <<>> THEN fromDate[1] ELSE now
        toDateValue == expDateTime
        rs0 == RoundDiv1000(JsSub(toDateValue, fromDateValue))
        days == FloorDiv(rs0, 86400)
        hours == FloorDiv(rs0, 3600)
        rs2 == JsSub(JsSub(rs0, JsMul(days, 86400)), JsMul(hours, 3600))
        minutes == FloorDiv(rs2, 60)
        rs3 == JsSub(rs2, JsMul(minutes, 60))
    IN  [days |-> days, hours |-> hours, minutes |-> minutes, seconds |-> rs3]

constructor(expDateTime, fromDate, now) ==
    LET fromDateValue == IF fromDate # <<>> THEN fromDate[1] ELSE now
        toDateValue == expDateTime
        rs0 == RoundDiv1000(JsSub(toDateValue, fromDateValue))
        days == FloorDiv(rs0, 86400)
        rs1 == JsSub(rs0, JsMul(days, 86400))
        hours == FloorDiv(rs1, 3600)
        rs2 == JsSub(rs1, JsMul(hours, 3600))
        minutes == FloorDiv(rs2, 60)
        rs3 == JsSub(rs2, JsMul(minutes, 60))
    IN  [days |-> days, hours |-> hours, minutes |-> minutes, seconds |-> rs3]

PadTooWide(s, padZero) == IF padZero /\ Len(s) < 3 THEN "0" \o s ELSE s

Pad(s, padZero) == IF padZero /\ Len(s) < 2 THEN "0" \o s ELSE s

getStringValue(v, padZero) ==
    [days |-> Pad(toString(v.days), padZero),
     hours |-> Pad(toString(v.hours), padZero),
     minutes |-> Pad(toString(v.minutes), padZero),
     seconds |-> Pad(toString(v.seconds), padZero)]

reset == [days |-> 0, hours |-> 0, minutes |-> 0, seconds |-> 0]

dayDownResetsAtZero(v, num) ==
    LET newDays == JsSub(v.days, num)
    IN  IF JsGt(newDays, 0) THEN [v EXCEPT !.days = newDays] ELSE reset

dayDownNoReset(v, num) ==
    LET newDays == JsSub(v.days, num)
    IN  [v EXCEPT !.days = IF JsGt(newDays, 0) THEN newDays ELSE 0]

dayDown(v, num) ==
    LET newDays == JsSub(v.days, num)
        v1 == [v EXCEPT !.days = IF JsGt(newDays, 0) THEN newDays ELSE 0]
    IN  IF JsLt(newDays, 0) THEN reset ELSE v1

RECURSIVE hourDownBorrows23(_, _)
hourDownBorrows23(v, num) ==
    LET newHours == JsSub(v.hours, num)
    IN  IF JsGt(v.days, 0) /\ JsLt(newHours, 0)
        THEN LET v1 == dayDown(v, 1)
             IN  hourDownBorrows23([v1 EXCEPT !.hours = JsAdd(v1.hours, 23)], num)
        ELSE [v EXCEPT !.hours = IF JsGt(newHours, 0) THEN newHours ELSE 0]

RECURSIVE hourDownNoClamp(_, _)
hourDownNoClamp(v, num) ==
    LET newHours == JsSub(v.hours, num)
    IN  IF JsGt(v.days, 0) /\ JsLt(newHours, 0)
        THEN LET v1 == dayDown(v, 1)
             IN  hourDownNoClamp([v1 EXCEPT !.hours = JsAdd(v1.hours, 24)], num)
        ELSE [v EXCEPT !.hours = newHours]

RECURSIVE hourDown(_, _)
hourDown(v, num) ==
    LET newHours == JsSub(v.hours, num)
    IN  IF JsGt(v.days, 0) /\ JsLt(newHours, 0)
        THEN LET v1 == dayDown(v, 1)
             IN  hourDown([v1 EXCEPT !.hours = JsAdd(v1.hours, 24)], num)
        ELSE [v EXCEPT !.hours = IF JsGt(newHours, 0) THEN newHours ELSE 0]

RECURSIVE minuteDown(_, _)
minuteDown(v, num) ==
    LET newMinutes == JsSub(v.minutes, num)
    IN  IF (JsGt(v.days, 0) \/ JsGt(v.hours, 0)) /\ JsLt(newMinutes, 0)
        THEN LET v1 == hourDown(v, 1)
             IN  minuteDown([v1 EXCEPT !.minutes = JsAdd(v1.minutes, 60)], num)
        ELSE [v EXCEPT !.minutes = IF JsGt(newMinutes, 0) THEN newMinutes ELSE 0]

RECURSIVE secondDownNoClamp(_, _)
secondDownNoClamp(v, num) ==
    LET newSeconds == JsSub(v.seconds, num)
    IN  IF (JsGt(v.days, 0) \/ JsGt(v.hours, 0) \/ JsGt(v.minutes, 0)) /\ JsLt(newSeconds, 0)
        THEN LET v1 == minuteDown(v, 1)
             IN  secondDownNoClamp([v1 EXCEPT !.seconds = JsAdd(v1.seconds, 60)], num)
        ELSE [v EXCEPT !.seconds = newSeconds]

RECURSIVE secondDownBorrowsOnce(_, _)
secondDownBorrowsOnce(v, num) ==
    LET newSeconds == JsSub(v.seconds, num)
        v1 == minuteDown(v, 1)
        borrowed == JsSub(JsAdd(v1.seconds, 60), num)
    IN  IF (JsGt(v.days, 0) \/ JsGt(v.hours, 0) \/ JsGt(v.minutes, 0)) /\ JsLt(newSeconds, 0)
        THEN [v1 EXCEPT !.seconds = IF JsGt(borrowed, 0) THEN borrowed ELSE 0]
        ELSE [v EXCEPT !.seconds = IF JsGt(newSeconds, 0) THEN newSeconds ELSE 0]

RECURSIVE secondDownBorrowsAtZero(_, _)
secondDownBorrowsAtZero(v, num) ==
    LET newSeconds == JsSub(v.seconds, num)
    IN  IF (JsGt(v.days, 0) \/ JsGt(v.hours, 0) \/ JsGt(v.minutes, 0)) /\ ~JsGt(newSeconds, 0)
           /\ ~IsNaN(newSeconds)
        THEN LET v1 == minuteDown(v, 1)
             IN  secondDownBorrowsAtZero([v1 EXCEPT !.seconds = JsAdd(v1.seconds, 60)], num)
        ELSE [v EXCEPT !.seconds = IF JsGt(newSeconds, 0) THEN newSeconds ELSE 0]

RECURSIVE secondDown(_, _)
secondDown(v, num) ==
    LET newSeconds == JsSub(v.seconds, num)
    IN  IF (JsGt(v.days, 0) \/ JsGt(v.hours, 0) \/ JsGt(v.minutes, 0)) /\ JsLt(newSeconds, 0)
        THEN LET v1 == minuteDown(v, 1)
             IN  secondDown([v1 EXCEPT !.seconds = JsAdd(v1.seconds, 60)], num)
        ELSE [v EXCEPT !.seconds = IF JsGt(newSeconds, 0) THEN newSeconds ELSE 0]

\* isExpired(): true exactly when all four fields are zero
isExpired(v) == v.days = 0 /\ v.hours = 0 /\ v.minutes = 0 /\ v.seconds = 0

----------------------------------------------------------------------------
(* GifCountdown.                                                           *)

\* loadImage(path) of the canvas library: the image a path resolves to, or <<>>
\* when the promise rejects (no such file, not an image)
ImagePaths == {"bg.png", "expired.png", "small.png", "tall.png", "missing.png"}

canvasLoadImage(imagePath) ==
    CASE imagePath = "bg.png" -> <<[name |-> "bg.png", width |-> 2, height |-> 1]>>
      [] imagePath = "expired.png" -> <<[name |-> "expired.png", width |-> 2, height |-> 1]>>
      [] imagePath = "small.png" -> <<[name |-> "small.png", width |-> 1, height |-> 1]>>
      [] imagePath = "tall.png" -> <<[name |-> "tall.png", width |-> 2, height |-> 2]>>
      [] OTHER -> <<>>

\* registerFont(path, ...) of the canvas library throws when the font cannot be read
canvasRegisterFontThrows(font_path) == font_path = "missing.ttf"

\* a JavaScript value is falsy when it is not there (<<>>), "" or 0
FalsyArg(x) == x = <<>>
FalsyStr(x) == x = ""
FalsyNum(x) == x = 0

\* the fontText argument: the example of the documentation and its defects
FontTextExample ==
    [font_path |-> "OpenSans-Bold.ttf", font_name |-> "Open Sans", font_size |-> 40,
     text_fn |-> "fn", text_color |-> "rgb(163, 168, 178)",
     text_x_offset |-> 25, text_y_offset |-> 49]

FontTexts ==
    {<<>>, <<FontTextExample>>,
     <<[FontTextExample EXCEPT !.font_path = ""]>>,
     <<[FontTextExample EXCEPT !.font_path = "missing.ttf"]>>,
     <<[FontTextExample EXCEPT !.font_name = ""]>>,
     <<[FontTextExample EXCEPT !.font_size = 0]>>,
     <<[FontTextExample EXCEPT !.text_fn = ""]>>,
     <<[FontTextExample EXCEPT !.text_color = ""]>>,
     <<[FontTextExample EXCEPT !.text_x_offset = 0]>>,
     <<[FontTextExample EXCEPT !.text_y_offset = 0]>>}

\* text_fn, the caller's function from the string view to the frame's text:
\* the one of the documentation
text_fn(counter) ==
    counter.days \o " : " \o counter.hours \o " : " \o counter.minutes \o " : " \o counter.seconds

\* new GifCountdown(frameDelay, numFrames, gifNumRepeat, numSecondDown)
GifCountdown(frameDelay, numFrames, gifNumRepeat, numSecondDown) ==
    [delay |-> frameDelay, numFrames |-> numFrames, gifNumRepeat |-> gifNumRepeat,
     numSecondDown |-> numSecondDown,
     image |-> <<>>, imageWidth |-> <<>>, imageHeight |-> <<>>,
     expImage |-> <<>>, fontText |-> <<>>]

\* the outcome of a method call: the error thrown ("": it returned), the
\* argument it was given, and for generate() the frames created, the counter
\* values #createFrame read (shown), the writeFrame calls and the counter at the end
Returned(op) ==
    [op |-> op, error |-> "", frames |-> <<>>, shown |-> <<>>, written |-> <<>>,
     finished |-> FALSE, counter |-> reset, input |-> <<>>]
Threw(op, message) == [Returned(op) EXCEPT !.error = message]

createFrameExpiredKeepsText(self, counter) ==
    LET useExpImage == isExpired(counter) /\ self.expImage # <<>>
    IN  [image |-> IF useExpImage THEN self.expImage[1] ELSE self.image[1],
         text |-> <<text_fn(getStringValue(counter, TRUE))>>]

\* #createFrame(counter): the image drawn and the text filled over it (<<>>: none)
createFrame(self, counter) ==
    LET useExpImage == isExpired(counter) /\ self.expImage # <<>>
    IN  [image |-> IF useExpImage THEN self.expImage[1] ELSE self.image[1],
         text |-> IF useExpImage THEN <<>>
                  ELSE <<text_fn(getStringValue(counter, TRUE))>>]

RECURSIVE renderLoopDecrementsFirst(_, _)
renderLoopDecrementsFirst(self, st) ==
    IF st.i <= self.numFrames
    THEN LET counter == secondDown(st.counter, self.numSecondDown)
         IN  renderLoopDecrementsFirst(self,
                [i |-> st.i + 1,
                 counter |-> counter,
                 shown |-> Append(st.shown, counter),
                 frames |-> Append(st.frames, createFrame(self, counter))])
    ELSE st

\* the render loop of generate(): for (let i = 0; i <= this.numFrames; i++),
\* from the loop's state st = [i, counter, frames]; shown collects the counter
\* values handed to #createFrame
RECURSIVE renderLoop(_, _)
renderLoop(self, st) ==
    IF st.i <= self.numFrames
    THEN renderLoop(self,
            [i |-> st.i + 1,
             counter |-> secondDown(st.counter, self.numSecondDown),
             shown |-> Append(st.shown, st.counter),
             frames |-> Append(st.frames, createFrame(self, st.counter))])
    ELSE st

writeFramesAlwaysRepeat(self, counter, frames) ==
    [k \in 1..Len(frames) |->
        [frame |-> frames[k], delay |-> self.delay, repeat |-> self.gifNumRepeat]]

\* the encoding loop of generate(): one writeFrame per frame
writeFrames(self, counter, frames) ==
    [k \in 1..Len(frames) |->
        [frame |-> frames[k], delay |-> self.delay,
         repeat |-> IF isExpired(counter) THEN -1 ELSE self.gifNumRepeat]]

----------------------------------------------------------------------------
(* Inputs.                                                                 *)

\* whole-second distances between the reference and the expiration instant
Distances ==
    {0, 1, 2, 59, 60, 61, 125, 3599, 3600, 3602, 3725, 86399, 86400, 86402, 90061, 172800}

\* what an expiration date string parses to, in ms
ExpDateTimes ==
    {1000 * d : d \in Distances} \cup {499, 500, 1499, 1500, -400, -1000, -90061000, NaN}

\* the constructor's arguments with the reading of Date.now(): fromDate given
\* (instant 0), fromDate not given (the clock is read), fromDate unparseable
Args ==
    {[expDateTime |-> e, fromDate |-> <<0>>, now |-> 250] : e \in ExpDateTimes}
    \cup {[expDateTime |-> e, fromDate |-> <<>>, now |-> n] :
             e \in {1000, 125000}, n \in {1000, 1501}}
    \cup {[expDateTime |-> 125000, fromDate |-> <<NaN>>, now |-> 250]}

\* the num argument of the *Down methods (negative num is not a supported input)
Nums == {0, 1, 2, 24, 25, 60, 61, 125, 3600, 3601}

----------------------------------------------------------------------------
(* The counter as a state machine.                                         *)

Call(op, num, padZero) ==
    [op |-> op, num |-> num, padZero |-> padZero, before |-> value]

CounterInit(A) ==
    /\ args \in A
    /\ value = constructor(args.expDateTime, args.fromDate, args.now)
    /\ view = <<>>
    /\ last = [op |-> "new", num |-> 0, padZero |-> FALSE, before |-> value]
    /\ calls = 0

\* The counter on its own: no GifCountdown method is called.
Init ==
    /\ CounterInit(Args)
    /\ gc = GifCountdown(1000, 60, 0, 1)
    /\ result = Returned("new")

Step(op, num, padZero, newValue, newView) ==
    /\ value' = newValue
    /\ view' = newView
    /\ last' = Call(op, num, padZero)
    /\ calls' = calls + 1
    /\ UNCHANGED <<args, gc, result>>

DayDown ==
    /\ calls < MaxCalls
    /\ \E num \in Nums : Step("dayDown", num, FALSE, dayDown(value, num), view)

HourDown ==
    /\ calls < MaxCalls
    /\ \E num \in Nums : Step("hourDown", num, FALSE, hourDown(value, num), view)

MinuteDown ==
    /\ calls < MaxCalls
    /\ \E num \in Nums : Step("minuteDown", num, FALSE, minuteDown(value, num), view)

SecondDown ==
    /\ calls < MaxCalls
    /\ \E num \in Nums : Step("secondDown", num, FALSE, secondDown(value, num), view)

Reset ==
    /\ calls < MaxCalls
    /\ Step("reset", 0, FALSE, reset, view)

GetStringValue ==
    /\ calls < MaxCalls
    /\ \E padZero \in BOOLEAN :
          Step("getStringValue", 0, padZero, value, <<getStringValue(value, padZero)>>)

Next ==
    \/ DayDown
    \/ HourDown
    \/ MinuteDown
    \/ SecondDown
    \/ Reset
    \/ GetStringValue

Spec == Init /\ [][Next]_vars

\* The countdown: one counter driven by secondDown(1) alone.
Tick ==
    /\ calls < MaxTicks
    /\ Step("secondDown", 1, FALSE, secondDown(value, 1), view)

Countdown == Init /\ [][Tick]_vars

----------------------------------------------------------------------------
(* GifCountdown as a state machine.                                       *)

\* the options a GifCountdown is constructed with: the defaults
\* (frameDelay = 1000, numFrames = 60, gifNumRepeat = 0, numSecondDown = 1)
\* and short animations
GifOptions ==
    {[frameDelay |-> 1000, numFrames |-> 60, gifNumRepeat |-> 0, numSecondDown |-> 1]}
    \cup [frameDelay : {500}, numFrames : {0, 1, 2}, gifNumRepeat : {0, 3},
          numSecondDown : {1, 2, 60}]

\* the arguments generate() hands to the counter's constructor
GenerateArgs ==
    {[expDateTime |-> e, fromDate |-> <<0>>, now |-> 250] :
        e \in {0, 1000, 2000, 61000, 86400000, -1000, NaN}}
    \cup {[expDateTime |-> 60000, fromDate |-> <<>>, now |-> 250]}

GifInit ==
    /\ CounterInit({[expDateTime |-> 0, fromDate |-> <<0>>, now |-> 0]})
    /\ \E o \in GifOptions :
          gc = GifCountdown(o.frameDelay, o.numFrames, o.gifNumRepeat, o.numSecondDown)
    /\ result = Returned("new")

LoadImage ==
    \E imagePath \in ImagePaths :
        LET loaded == canvasLoadImage(imagePath)
        IN  /\ IF loaded = <<>>
               THEN /\ result' = [Threw("loadImage", "loadImage rejected")
                                     EXCEPT !.input = <<imagePath>>]
                    /\ UNCHANGED gc
               ELSE /\ gc' = [gc EXCEPT !.image = loaded,
                                        !.imageWidth = <<loaded[1].width>>,
                                        !.imageHeight = <<loaded[1].height>>]
                    /\ result' = [Returned("loadImage") EXCEPT !.input = <<imagePath>>]
            /\ UNCHANGED counterVars

LoadExpiredImageNoHeightCheck ==
    \E imagePath \in ImagePaths :
        LET expImage == canvasLoadImage(imagePath)
            Throw(message) ==
                /\ result' = [Threw("loadExpiredImage", message) EXCEPT !.input = <<imagePath>>]
                /\ UNCHANGED gc
        IN  /\ IF gc.image = <<>>
               THEN Throw("Background image is not loaded. Run loadImage() first")
               ELSE IF expImage = <<>>
               THEN Throw("loadImage rejected")
               ELSE IF <<expImage[1].width>> # gc.imageWidth
               THEN Throw("Expired image width is not equal to the counter image's")
               ELSE /\ gc' = [gc EXCEPT !.expImage = expImage]
                    /\ result' = [Returned("loadExpiredImage")
                                     EXCEPT !.input = <<imagePath>>]
            /\ UNCHANGED counterVars

LoadExpiredImage ==
    \E imagePath \in ImagePaths :
        LET expImage == canvasLoadImage(imagePath)
            Throw(message) ==
                /\ result' = [Threw("loadExpiredImage", message) EXCEPT !.input = <<imagePath>>]
                /\ UNCHANGED gc
        IN  /\ IF gc.image = <<>>
               THEN Throw("Background image is not loaded. Run loadImage() first")
               ELSE IF expImage = <<>>
               THEN Throw("loadImage rejected")
               ELSE IF <<expImage[1].width>> # gc.imageWidth
               THEN Throw("Expired image width is not equal to the counter image's")
               ELSE IF <<expImage[1].height>> # gc.imageHeight
               THEN Throw("Expired image width is not equal to the counter image's")
               ELSE /\ gc' = [gc EXCEPT !.expImage = expImage]
                    /\ result' = [Returned("loadExpiredImage")
                                     EXCEPT !.input = <<imagePath>>]
            /\ UNCHANGED counterVars

registerFontTextError(fontText) ==
    IF FalsyArg(fontText) THEN "fontText object is not provided"
    ELSE IF FalsyStr(fontText[1].font_path) THEN "font_path is not provided"
    ELSE IF FalsyStr(fontText[1].font_name) THEN "font_name is not provided"
    ELSE IF FalsyNum(fontText[1].font_size) THEN "font_size is not provided"
    ELSE IF FalsyStr(fontText[1].text_fn) THEN "text_fn is not provided"
    ELSE IF FalsyStr(fontText[1].text_color) THEN "text_color is not provided"
    ELSE IF FalsyNum(fontText[1].text_x_offset) THEN "text_x_offset is not provided"
    ELSE IF FalsyNum(fontText[1].text_y_offset) THEN "text_y_offset is not provided"
    ELSE IF canvasRegisterFontThrows(fontText[1].font_path) THEN "registerFont threw"
    ELSE ""

RegisterFontText ==
    \E fontText \in FontTexts :
        LET error == registerFontTextError(fontText)
        IN  /\ IF error # ""
               THEN /\ result' = Threw("registerFontText", error)
                    /\ UNCHANGED gc
               ELSE /\ gc' = [gc EXCEPT !.fontText = fontText]
                    /\ result' = Returned("registerFontText")
            /\ UNCHANGED counterVars

GenerateSkipsFontCheck ==
    \E a \in GenerateArgs :
        /\ IF gc.image = <<>>
           THEN result' = [Threw("generate",
                                 "Background image is not loaded. Run loadImage() first")
                             EXCEPT !.input = <<a>>]
           ELSE LET counter == constructor(a.expDateTime, a.fromDate, a.now)
                    loop == renderLoop(gc, [i |-> 0, counter |-> counter, shown |-> <<>>,
                                            frames |-> <<>>])
                IN  result' = [Returned("generate") EXCEPT
                                  !.frames = loop.frames,
                                  !.shown = loop.shown,
                                  !.written = writeFrames(gc, loop.counter, loop.frames),
                                  !.finished = TRUE,
                                  !.counter = loop.counter,
                                  !.input = <<a>>]
        /\ UNCHANGED <<gc, counterVars>>

Generate ==
    \E a \in GenerateArgs :
        /\ IF gc.image = <<>>
           THEN result' = [Threw("generate",
                                 "Background image is not loaded. Run loadImage() first")
                             EXCEPT !.input = <<a>>]
           ELSE IF gc.fontText = <<>>
           THEN result' = [Threw("generate",
                                 "Font and text are not configured. Run registerFontText() first")
                             EXCEPT !.input = <<a>>]
           ELSE LET counter == constructor(a.expDateTime, a.fromDate, a.now)
                    loop == renderLoop(gc, [i |-> 0, counter |-> counter, shown |-> <<>>,
                                            frames |-> <<>>])
                IN  result' = [Returned("generate") EXCEPT
                                  !.frames = loop.frames,
                                  !.shown = loop.shown,
                                  !.written = writeFrames(gc, loop.counter, loop.frames),
                                  !.finished = TRUE,
                                  !.counter = loop.counter,
                                  !.input = <<a>>]
        /\ UNCHANGED <<gc, counterVars>>

GifNext ==
    \/ LoadImage
    \/ LoadExpiredImage
    \/ RegisterFontText
    \/ Generate

GifSpec == GifInit /\ [][GifNext]_vars

----------------------------------------------------------------------------
(* Vocabulary of the properties.                                           *)

Fields == {"days", "hours", "minutes", "seconds"}

Max(a, b) == IF a >= b THEN a ELSE b

\* the duration a field record stands for, in seconds
Total(v) == v.days * 86400 + v.hours * 3600 + v.minutes * 60 + v.seconds

\* the normalized decomposition of t seconds
Decompose(t) ==
    [days |-> t \div 86400, hours |-> (t % 86400) \div 3600,
     minutes |-> (t % 3600) \div 60, seconds |-> t % 60]

HoldsIntegers(v) == \A f \in Fields : ~IsNaN(v[f])

\* a valid duration: integer fields in their ranges, days >= 0
ValidDuration(v) ==
    /\ HoldsIntegers(v)
    /\ v.days >= 0
    /\ v.hours \in 0..23
    /\ v.minutes \in 0..59
    /\ v.seconds \in 0..59

AllZero(v) == \A f \in Fields : v[f] = 0

\* the instants the constructor was given
Reference == IF args.fromDate # <<>> THEN args.fromDate[1] ELSE args.now
Parsed == ~IsNaN(args.expDateTime) /\ ~IsNaN(Reference)
\* target - reference in ms (meaningful when Parsed)
DiffMs == args.expDateTime - Reference
\* the counter was constructed with target >= reference
ValidStart == Parsed /\ DiffMs >= 0
\* the counter as constructed
Constructed == constructor(args.expDateTime, args.fromDate, args.now)

Downs == {"dayDown", "hourDown", "minuteDown", "secondDown"}

----------------------------------------------------------------------------
(* C1: from a counter constructed with target >= reference, after any      *)
(* sequence of dayDown, hourDown, minuteDown and secondDown calls with     *)
(* non-negative arguments, days >= 0, hours is in 0..23 and minutes and    *)
(* seconds are in 0..59.                                                   *)
C1_RangeInvariant == ValidStart => ValidDuration(value)

\* a borrow through all three boundaries has happened after an earlier call
C1_Witness ==
    /\ ValidStart
    /\ calls = 2
    /\ last.op = "secondDown"
    /\ last.num = 1
    /\ last.before = [days |-> 1, hours |-> 0, minutes |-> 0, seconds |-> 0]
    /\ value = [days |-> 0, hours |-> 23, minutes |-> 59, seconds |-> 59]

(* C2: repeated secondDown(1) calls from a valid duration of T seconds     *)
(* reach the all-zero state after exactly T calls: not all-zero after      *)
(* fewer than T calls, all-zero after the T-th and after every later one.  *)
(* (Countdown: calls counts the secondDown(1) calls made so far.)          *)
C2_ExpiresAfterExactlyT ==
    ValidStart => (AllZero(value) <=> calls >= Total(Constructed))

\* T = 125: all-zero right after the 125th call
C2_Witness ==
    /\ ValidStart
    /\ Total(Constructed) = 125
    /\ calls = 125
    /\ ~AllZero(last.before)
    /\ AllZero(value)

(* C3: for a valid duration D and N <= Total(D), N calls of secondDown(1)  *)
(* leave the same four fields as one secondDown(N) call on D.              *)
(* (Countdown: value is D after calls calls of secondDown(1).)             *)
C3_PathIndependence ==
    (ValidStart /\ calls <= Total(Constructed)) => value = secondDown(Constructed, calls)

\* 62 unit steps against one secondDown(62) that borrows across the hour
C3_Witness ==
    /\ ValidStart
    /\ Total(Constructed) = 3602
    /\ calls = 62
    /\ value = [days |-> 0, hours |-> 0, minutes |-> 59, seconds |-> 0]

(* C4: once all four fields are zero, any further secondDown, minuteDown,  *)
(* hourDown or dayDown leaves all four fields at zero.                     *)
C4_ExpiredIsAbsorbing ==
    (last.op \in Downs /\ AllZero(last.before)) => AllZero(value)

\* a positive decrement applied to a counter that an earlier call had zeroed
C4_Witness ==
    /\ calls = 2
    /\ last.op = "hourDown"
    /\ last.num > 0
    /\ AllZero(last.before)
    /\ AllZero(value)
    /\ ValidStart
    /\ DiffMs > 0

(* C5: secondDown(N) on a valid duration of T seconds leaves the           *)
(* normalized decomposition of max(T - N, 0).                              *)
C5_SecondDownExact ==
    (last.op = "secondDown" /\ ValidDuration(last.before))
        => value = Decompose(Max(Total(last.before) - last.num, 0))

\* the borrow cascade {1,0,0,0} -> {0,23,59,59}
C5_Witness ==
    /\ last.op = "secondDown"
    /\ last.num = 1
    /\ last.before = [days |-> 1, hours |-> 0, minutes |-> 0, seconds |-> 0]
    /\ value = [days |-> 0, hours |-> 23, minutes |-> 59, seconds |-> 59]
    /\ calls = 1

(* C6: for a whole-second difference of totalSeconds >= 0 between target   *)
(* and reference, the constructed fields have days = totalSeconds / 86400  *)
(* rounded down, hours in 0..23, minutes and seconds in 0..59, and stand   *)
(* for exactly totalSeconds.                                               *)
C6_ConstructionDecomposition ==
    (calls = 0 /\ ValidStart /\ DiffMs % 1000 = 0)
        => /\ value.days = (DiffMs \div 1000) \div 86400
           /\ ValidDuration(value)
           /\ Total(value) = DiffMs \div 1000

\* 90061 -> {1,1,1,1}
C6_Witness ==
    /\ calls = 0
    /\ ValidStart
    /\ DiffMs = 90061000
    /\ value = [days |-> 1, hours |-> 1, minutes |-> 1, seconds |-> 1]

(* C7: construction from an expiration or reference instant that does not  *)
(* parse fails; it never completes with a counter holding a non-integer    *)
(* field.  (The constructor has no failing exit, so every state of the     *)
(* model holds a constructed counter.)                                     *)
C7_UnparseableNeverYieldsCounter ==
    ~(~Parsed /\ calls = 0 /\ ~HoldsIntegers(value))

(* C8: dayDown(N): all four fields become 0 if days - N < 0; otherwise     *)
(* days becomes days - N and hours, minutes and seconds are unchanged.     *)
C8_DayDown ==
    (last.op = "dayDown" /\ HoldsIntegers(last.before))
        => value = IF last.before.days - last.num < 0
                   THEN [days |-> 0, hours |-> 0, minutes |-> 0, seconds |-> 0]
                   ELSE [last.before EXCEPT !.days = last.before.days - last.num]

\* N = days: days becomes 0 and the lower fields stay
C8_Witness ==
    /\ last.op = "dayDown"
    /\ last.num = 1
    /\ last.before = [days |-> 1, hours |-> 1, minutes |-> 1, seconds |-> 1]
    /\ value = [days |-> 0, hours |-> 1, minutes |-> 1, seconds |-> 1]

(* C9: getStringValue(padZero) returns each field as decimal text: with    *)
(* padZero a field in 0..9 gets one leading zero and a field >= 10 is      *)
(* unpadded, without padZero every field is unpadded; the counter's        *)
(* fields are not changed by the call.                                     *)
C9_StringView ==
    last.op = "getStringValue"
        => /\ value = last.before
           /\ Len(view) = 1
           /\ \A f \in Fields :
                 LET n == value[f]
                     s == view[1][f]
                 IN  /\ (last.padZero /\ n \in 0..9) => s = "0" \o DigitChar(n)
                     /\ (~IsNaN(n) /\ n >= 10) => s = Digits(n)
                     /\ (~last.padZero /\ n \in 0..9) => s = DigitChar(n)

\* 86399 s with padding: "00", "23", "59", "59"
C9_Witness ==
    /\ last.op = "getStringValue"
    /\ last.padZero
    /\ value = [days |-> 0, hours |-> 23, minutes |-> 59, seconds |-> 59]
    /\ view = <<[days |-> "00", hours |-> "23", minutes |-> "59", seconds |-> "59"]>>

(* C10: generate() renders exactly numFrames frames: the frames created by *)
(* the render loop and written to the encoder number numFrames.            *)
C10_RendersNumFrames ==
    (result.op = "generate" /\ result.finished)
        => /\ Len(result.frames) = gc.numFrames
           /\ Len(result.written) = gc.numFrames

----------------------------------------------------------------------------
(* Vocabulary of the GifCountdown properties.                              *)

\* the last call was a generate() that rendered and encoded
Rendered == result.op = "generate" /\ result.finished
\* the arguments that generate() handed to the counter's constructor
GenInput == result.input[1]
GenReference == IF GenInput.fromDate # <<>> THEN GenInput.fromDate[1] ELSE GenInput.now
\* both instants parsed and the target is not before the reference
GenValidStart ==
    /\ ~IsNaN(GenInput.expDateTime)
    /\ ~IsNaN(GenReference)
    /\ GenInput.expDateTime - GenReference >= 0
\* the total, in seconds, of the counter generate() constructed
GenTotal == Total(constructor(GenInput.expDateTime, GenInput.fromDate, GenInput.now))

(* C11: a frame is drawn from the expired image, with no text, exactly     *)
(* when the counter is all-zero as the frame is created and an expired     *)
(* image is loaded; every other frame is drawn from the background image   *)
(* with the text text_fn makes of the counter's string view.               *)
C11_ExpiredFrame ==
    Rendered =>
        /\ Len(result.shown) = Len(result.frames)
        /\ \A k \in 1..Len(result.frames) :
              LET frame == result.frames[k]
                  counter == result.shown[k]
              IN  IF AllZero(counter) /\ gc.expImage # <<>>
                  THEN frame = [image |-> gc.expImage[1], text |-> <<>>]
                  ELSE frame = [image |-> gc.image[1],
                                text |-> <<text_fn(getStringValue(counter, TRUE))>>]

\* one animation that starts on the background and ends on the expired image
C11_Witness ==
    /\ Rendered
    /\ Len(result.frames) = 3
    /\ result.frames[1] = [image |-> [name |-> "bg.png", width |-> 2, height |-> 1],
                           text |-> <<"00 : 00 : 00 : 02">>]
    /\ result.frames[2].text = <<"00 : 00 : 00 : 01">>
    /\ result.frames[3] = [image |-> [name |-> "expired.png", width |-> 2, height |-> 1],
                           text |-> <<>>]

(* C12: loadExpiredImage stores the expired image only when a background   *)
(* image is loaded and the expired image's width and height equal the      *)
(* background's; otherwise it fails with an error and leaves the stored    *)
(* expired image (or its absence) as it was.                               *)
C12_LoadExpiredImage ==
    [][result'.op = "loadExpiredImage" =>
        LET expImage == canvasLoadImage(result'.input[1])
        IN  IF /\ gc.image # <<>>
               /\ expImage # <<>>
               /\ expImage[1].width = gc.image[1].width
               /\ expImage[1].height = gc.image[1].height
            THEN result'.error = "" /\ gc'.expImage = expImage
            ELSE result'.error # "" /\ gc'.expImage = gc.expImage]_vars

\* an expired image of the background's size replaced an earlier one
C12_Witness ==
    /\ result.op = "loadExpiredImage"
    /\ result.error = ""
    /\ result.input = <<"bg.png">>
    /\ gc.image = <<[name |-> "expired.png", width |-> 2, height |-> 1]>>
    /\ gc.expImage = <<[name |-> "bg.png", width |-> 2, height |-> 1]>>

----------------------------------------------------------------------------
\* the seconds one unit of a *Down method stands for
UnitSeconds(op) ==
    CASE op = "dayDown" -> 86400
      [] op = "hourDown" -> 3600
      [] op = "minuteDown" -> 60
      [] op = "secondDown" -> 1

(* C13: for dayDown, hourDown, minuteDown and secondDown on a valid        *)
(* duration of T seconds, a requested amount (N units, in seconds) of at   *)
(* least T leaves the all-zero state.                                      *)
C13_OverDecrementExpires ==
    (/\ last.op \in Downs
     /\ ValidDuration(last.before)
     /\ last.num * UnitSeconds(last.op) >= Total(last.before))
        => AllZero(value)

(* C14: on a valid duration, minuteDown(N) with N <= days*1440 + hours*60  *)
(* + minutes takes exactly 60*N seconds off the total, leaves seconds      *)
(* unchanged and the state normalized; hourDown(N) with N <= days*24 +     *)
(* hours takes exactly 3600*N seconds off and leaves minutes and seconds   *)
(* unchanged.  Each gives the state secondDown gives for the same amount   *)
(* (compared for amounts up to MaxCompared seconds).                       *)
C14_ExactBorrow ==
    LET b == last.before
        amount == last.num * UnitSeconds(last.op)
        inRange == IF last.op = "minuteDown"
                   THEN last.num <= b.days * 1440 + b.hours * 60 + b.minutes
                   ELSE last.num <= b.days * 24 + b.hours
    IN  (last.op \in {"minuteDown", "hourDown"} /\ ValidDuration(b) /\ inRange)
            => /\ Total(value) = Total(b) - amount
               /\ ValidDuration(value)
               /\ value.seconds = b.seconds
               /\ last.op = "hourDown" => value.minutes = b.minutes
               /\ amount <= MaxCompared => value = secondDown(b, amount)

\* minuteDown(1) borrowing through the hour from the day: {1,0,0,0} -> {0,23,59,0}
C14_Witness ==
    /\ last.op = "minuteDown"
    /\ last.num = 1
    /\ last.before = [days |-> 1, hours |-> 0, minutes |-> 0, seconds |-> 0]
    /\ value = [days |-> 0, hours |-> 23, minutes |-> 59, seconds |-> 0]

(* C15: secondDown(N) with N <= seconds changes the seconds field only;    *)
(* secondDown(N) with N <= minutes*60 + seconds leaves days and hours      *)
(* unchanged.                                                              *)
C15_LazyBorrow ==
    LET b == last.before
    IN  (last.op = "secondDown" /\ HoldsIntegers(b))
            => /\ last.num <= b.seconds
                    => value = [b EXCEPT !.seconds = b.seconds - last.num]
               /\ last.num <= b.minutes * 60 + b.seconds
                    => value.days = b.days /\ value.hours = b.hours

\* {0,1,2,5} less 61 seconds borrows one minute and no hour
C15_Witness ==
    /\ last.op = "secondDown"
    /\ last.num = 61
    /\ last.before = [days |-> 0, hours |-> 1, minutes |-> 2, seconds |-> 5]
    /\ value = [days |-> 0, hours |-> 1, minutes |-> 1, seconds |-> 4]

C17_GenerateNeedsPrerequisites ==
    /\ result.op = "generate" =>
          IF gc.image = <<>> \/ gc.fontText = <<>>
          THEN /\ result.error # ""
               /\ ~result.finished
               /\ result.frames = <<>>
               /\ result.shown = <<>>
               /\ result.written = <<>>
          ELSE /\ result.error = ""
               /\ result.finished
    /\ gc.fontText # <<>> => registerFontTextError(gc.fontText) = ""
    /\ gc.image # <<>> => gc.image \in {canvasLoadImage(p) : p \in ImagePaths}

\* the image is loaded, the font is not registered: generate() throws
C17_Witness ==
    /\ result.op = "generate"
    /\ gc.image # <<>>
    /\ gc.fontText = <<>>
    /\ result.error = "Font and text are not configured. Run registerFontText() first"
    /\ result.frames = <<>>

(* C18: the constructor rounds (target - reference) / 1000 to the nearest  *)
(* whole second, halves upwards: for a difference of d >= 0 ms the         *)
(* decomposed total is floor((d + 500) / 1000).                            *)
C18_ConstructionRounds ==
    (calls = 0 /\ ValidStart) =>
        LET t == Total(value)
        IN  /\ ValidDuration(value)
            /\ 1000 * t <= DiffMs + 500
            /\ DiffMs + 500 < 1000 * t + 1000
            /\ DiffMs = 499 => AllZero(value)
            /\ DiffMs \in {500, 1499} => t = 1
            /\ DiffMs = 1500 => t = 2

\* 1500 ms is rounded up to 2 s
C18_Witness ==
    /\ calls = 0
    /\ ValidStart
    /\ DiffMs = 1500
    /\ value = [days |-> 0, hours |-> 0, minutes |-> 0, seconds |-> 2]

\* the constructor was given a reference more than half a second after the target
NegativeStart == Parsed /\ DiffMs + 500 < 0

\* hours, minutes and seconds of a field record, in seconds
LowerTotal(v) == v.hours * 3600 + v.minutes * 60 + v.seconds

(* C19: with the reference after the target (totalSeconds < 0) the         *)
(* constructor yields days <= -1, hours in 0..23, minutes and seconds in   *)
(* 0..59, standing for totalSeconds; from such a state secondDown,         *)
(* minuteDown and hourDown never change days nor reach the all-zero state  *)
(* (secondDown counts the lower fields down to 0), and dayDown resets the  *)
(* counter to all-zero.                                                    *)
C19_NegativeDuration ==
    /\ (calls = 0 /\ NegativeStart) =>
          /\ value.days <= -1
          /\ value.hours \in 0..23
          /\ value.minutes \in 0..59
          /\ value.seconds \in 0..59
          /\ 1000 * Total(value) <= DiffMs + 500
          /\ DiffMs + 500 < 1000 * Total(value) + 1000
    /\ NegativeStart => (value.days = Constructed.days \/ AllZero(value))
    /\ (/\ last.op \in {"secondDown", "minuteDown", "hourDown"}
        /\ HoldsIntegers(last.before)
        /\ last.before.days < 0)
          => /\ value.days = last.before.days
             /\ ~AllZero(value)
             /\ last.op = "secondDown" =>
                   LowerTotal(value) = Max(LowerTotal(last.before) - last.num, 0)
    /\ (/\ last.op = "dayDown"
        /\ HoldsIntegers(last.before)
        /\ last.before.days < 0)
          => AllZero(value)

\* one second before the reference: {-1,23,59,59}; hourDown(24) leaves {-1,0,59,59}
C19_Witness ==
    /\ NegativeStart
    /\ Constructed = [days |-> -1, hours |-> 23, minutes |-> 59, seconds |-> 59]
    /\ last.op = "hourDown"
    /\ last.num = 24
    /\ value = [days |-> -1, hours |-> 0, minutes |-> 59, seconds |-> 59]

(* C20: every frame is written with the same repeat value: -1 exactly when *)
(* the counter is all-zero after the render loop's last decrement (one     *)
(* decrement per rendered frame), gifNumRepeat otherwise; what any         *)
(* rendered frame shows does not decide it.                                *)
C20_RepeatSetting ==
    Rendered =>
        LET expiredAtEnd ==
                /\ GenValidStart
                /\ GenTotal - Len(result.frames) * gc.numSecondDown <= 0
            repeat == IF expiredAtEnd THEN -1 ELSE gc.gifNumRepeat
        IN  /\ Len(result.written) = Len(result.frames)
            /\ AllZero(result.counter) <=> expiredAtEnd
            /\ \A k \in 1..Len(result.written) :
                  /\ result.written[k].repeat = repeat
                  /\ result.written[k].frame = result.frames[k]
                  /\ result.written[k].delay = gc.delay

\* 2 s, two frames showing 2 s and 1 s: no frame shows zero, the repeat is -1
C20_Witness ==
    /\ Rendered
    /\ gc.gifNumRepeat = 3
    /\ Len(result.frames) = 2
    /\ result.frames[1].text = <<"00 : 00 : 00 : 02">>
    /\ result.frames[2].text = <<"00 : 00 : 00 : 01">>
    /\ result.written[1].repeat = -1
    /\ result.written[2].repeat = -1

====
